---- MODULE Spec2Model ----
(***************************************************************************)
(* A model of boot.py (pgcrumley/RPi-Pico): the MicroPython boot sequence  *)
(* that loads /boot.json, connects to WiFi, sets the hostname, fetches UTC *)
(* from a list of NTP servers, writes the RTC, applies a UTC offset, sets  *)
(* the system clock frequency and signals completion.                      *)
(*                                                                         *)
(* Python integers are unbounded.  TLC's integers are 32 bits wide, so a   *)
(* value that may leave that range (an NTP word, a UNIX time) is kept as a *)
(* pair [hi, lo] that stands for hi * 65536 + lo with lo in 0..65535.      *)
(***************************************************************************)
EXTENDS Integers, Sequences, FiniteSets, TLC

VARIABLES
    pc,                  \* position of the module-level code
    boot_json,           \* the /boot.json file: [ok, data]
    debug_file,          \* TRUE when a file named DEBUG is in '/'
    IMAGE_SUPPORTS_WIFI, \* network and socket import and the image is a Pico image
    boot_info,           \* the decoded configuration
    FLASH_LED, SET_RTC, SILENT, DEBUG, start_delay_seconds,
    this_is_a_pico_w,    \* result of is_a_pico_w()
    wlan_active,         \* activation state of the station interface
    wlan_link,           \* what the driver reports: [connected, status]
    network_ready, i,    \* locals of connect_using_DHCP
    last_poll,           \* what the latest status poll of connect_using_DHCP read
    rounds,              \* rounds of connect_using_DHCP started (counted up to MaxRounds)
    led_log,             \* flash counts handed to flash_led (the first MaxLed of them)
    hostname,            \* value handed to network.hostname(), <<>> while not set
    ntp_idx,             \* index into TIME_SERVERS of the server being tried
    ntp_sent,            \* servers a request was sent to, in order
    response,            \* the datagram of the reply that was accepted
    utc_time,            \* value returned by try_to_get_UTC_in_UNIX_seconds()
    ntp_exhausted,       \* TRUE once every server of TIME_SERVERS has failed
    rtc,                 \* the calendar tuple latched in the RTC
    rtc_log,             \* tuples handed to rtc.datetime(), tagged with the step
    offset_runs,         \* times the utc_time_offset step has run
    sys_freq,            \* machine.freq()
    freq_called,         \* TRUE once machine.freq(new_freq) has been called
    warned,              \* TRUE once the WARNING about the frequency was printed
    hw_fault,            \* TRUE once rtc.datetime() or machine.freq() has raised
    abort_at,            \* where an uncaught exception ended boot.py, "none" otherwise
    freq_arg,            \* value handed to machine.freq(), 0 while it was not called
    scan_result,         \* w.scan() of is_a_pico_w(): "none", "returned", "raised"
    link_at_ntp,         \* what isconnected() answered at line 401: "unread", "up", "down"
    ip_read,             \* ifconfig()[0] as read for the hostname, <<>> while not read
    fetched,             \* <<value the fetch returned in this run>>, <<>> without one
    boots,               \* runs of boot.py since power-on, this one included
    offset_writes,       \* writes of the utc_time_offset step that took effect since power-on
    round_log            \* calls of the round of connect_using_DHCP in progress or just ended

vars == <<pc, boot_json, debug_file, IMAGE_SUPPORTS_WIFI, boot_info,
          FLASH_LED, SET_RTC, SILENT, DEBUG, start_delay_seconds,
          this_is_a_pico_w, wlan_active, wlan_link, network_ready, i, last_poll,
          rounds, led_log, hostname, ntp_idx, ntp_sent, response, utc_time,
          ntp_exhausted, rtc, rtc_log, offset_runs, sys_freq, freq_called,
          warned, hw_fault, abort_at,
          freq_arg,
          scan_result,
          link_at_ntp,
          ip_read,
          fetched,
          boots,
          offset_writes,
          round_log>>

-----------------------------------------------------------------------------
(* Bounds of the model *)

\* rounds of connect_using_DHCP that are counted; later rounds run uncounted
MaxRounds == 2
\* entries kept in led_log
MaxLed == 6
\* a reply datagram is between 0 and 48 + MaxExtra bytes long
MaxExtra == 1
\* runs of boot.py that are followed after one power-on
MaxBoots == 2

-----------------------------------------------------------------------------
(* Program constants *)

DEFAULT_CONNECT_RETRIES == 10
LINK_UP_STATUS == 3
NTP_REPLY_WORDS == 12
\* SECONDS_BETWEEN_NTP_AND_UNIX_EPOCHS = 2208988800 = 33706 * 65536 + 32384
EPOCH_HI == 33706
EPOCH_LO == 32384
MAXIMUM_SYSTEM_CLOCK_FREQ == 133000000
DEFAULT_SYSTEM_CLOCK_FREQ == 125000000
LED_START_FLASH_COUNT == 1
LED_WIFI_CONNECT_TRY_COUNT == 2
LED_WIFI_CONNECTED_COUNT == 3
LED_TIME_OBTAINED_COUNT == 4
LED_DONE_COUNT == 5

TIME_SERVERS == <<"time.nist.gov", "pool.ntp.org", "time.google.com", "time.windows.com">>

-----------------------------------------------------------------------------
(* Wide integers *)

W(h, l) == [hi |-> h, lo |-> l]

SECONDS_BETWEEN_NTP_AND_UNIX_EPOCHS == W(EPOCH_HI, EPOCH_LO)

\* a - b
WSub(a, b) ==
    LET d == a.lo - b.lo
    IN  IF d >= 0 THEN W(a.hi - b.hi, d) ELSE W(a.hi - b.hi - 1, d + 65536)

\* a + k for a machine-size integer k
WAddInt(a, k) ==
    LET t == a.lo + k
    IN  W(a.hi + (t \div 65536), t % 65536)

-----------------------------------------------------------------------------
(* struct.unpack('!12I', response) on MicroPython *)

\* The big-endian unsigned 32-bit word that starts at byte offset off.
BigEndianWord(bytes, off) ==
    W(bytes[off + 1] * 256 + bytes[off + 2], bytes[off + 3] * 256 + bytes[off + 4])

\* MicroPython implements unpack with unpack_from: it raises ("buffer too
\* small") only when the buffer is shorter than the format, and decodes the
\* leading 48 bytes of a longer one.
UnpackRaises(bytes) == Len(bytes) < 4 * NTP_REPLY_WORDS

Unpack12I(bytes) == [k \in 1..NTP_REPLY_WORDS |-> BigEndianWord(bytes, 4 * (k - 1))]

-----------------------------------------------------------------------------
(* time.gmtime() and time.time(): proleptic Gregorian calendar, epoch 1970. *)
(* Both are taken as total.  The RTC is read as the tuple last latched: the  *)
(* seconds that pass between two steps of one boot are not counted.          *)

\* (year, month, day) of the day number z (days since 1970-01-01)
CivilFromDays(z0) ==
    LET z   == z0 + 719468
        era == z \div 146097
        doe == z - era * 146097
        yoe == (doe - (doe \div 1460) + (doe \div 36524) - (doe \div 146096)) \div 365
        y   == yoe + era * 400
        doy == doe - (365 * yoe + (yoe \div 4) - (yoe \div 100))
        mp  == (5 * doy + 2) \div 153
        d   == doy - ((153 * mp + 2) \div 5) + 1
        m   == IF mp < 10 THEN mp + 3 ELSE mp - 9
    IN  <<IF m <= 2 THEN y + 1 ELSE y, m, d>>

\* day number of (year, month, day)
DaysFromCivil(y0, m, d) ==
    LET y   == IF m <= 2 THEN y0 - 1 ELSE y0
        era == y \div 400
        yoe == y - era * 400
        mp  == IF m > 2 THEN m - 3 ELSE m + 9
        doy == ((153 * mp + 2) \div 5) + d - 1
        doe == yoe * 365 + (yoe \div 4) - (yoe \div 100) + doy
    IN  era * 146097 + doe - 719468

\* time.gmtime(secs): (year, month, mday, hour, minute, second, weekday, yearday)
gmtime(secs) ==
    LET v128 == secs.hi * 512 + (secs.lo \div 128)
        days == v128 \div 675
        sod  == (v128 % 675) * 128 + (secs.lo % 128)
        ymd  == CivilFromDays(days)
    IN  <<ymd[1], ymd[2], ymd[3],
          sod \div 3600, (sod % 3600) \div 60, sod % 60,
          (days + 3) % 7,
          days - DaysFromCivil(ymd[1], 1, 1) + 1>>

\* time.time(): the seconds since 1970 of the tuple latched in the RTC
\* (year, month, day, weekday, hour, minute, second, subseconds)
time_time(dt) ==
    LET days == DaysFromCivil(dt[1], dt[2], dt[3])
        sod  == dt[5] * 3600 + dt[6] * 60 + dt[7]
        v128 == days * 675 + (sod \div 128)
    IN  W(v128 \div 512, (v128 % 512) * 128 + (sod % 128))

\* variant: the gmtime() result is handed over in its own field order
RtcTupleInGmtimeOrder(tm) == <<tm[1], tm[2], tm[3], tm[4], tm[5], tm[6], tm[7], tm[8]>>

\* the tuple the boot sequence hands to rtc.datetime() for a gmtime() result
RtcTuple(tm) == <<tm[1], tm[2], tm[3], 0, tm[4], tm[5], tm[6], 0>>

-----------------------------------------------------------------------------
(* Strings are sequences of one-character strings *)

RECURSIVE Replace(_, _, _)
\* str.replace(old, new) for a one-character old: every occurrence is replaced
Replace(s, old, new) ==
    IF s = <<>> THEN <<>>
    ELSE (IF Head(s) = old THEN new ELSE <<Head(s)>>) \o Replace(Tail(s), old, new)

RECURSIVE LastField(_, _)
\* str.split(sep)[-1]: what follows the last sep, the whole string without one
LastField(s, sep) ==
    IF s = <<>> THEN <<>>
    ELSE IF s[Len(s)] = sep THEN <<>>
    ELSE LastField(SubSeq(s, 1, Len(s) - 1), sep) \o <<s[Len(s)]>>

Contains(s, c) == \E k \in 1..Len(s) : s[k] = c

-----------------------------------------------------------------------------
(* The inputs of a run *)

\* the empty mapping, {} in Python
EmptyInfo == <<>>

Has(info, k) == k \in DOMAIN info

\* a key that is absent, or present with one of vals
Opt(k, vals) == {EmptyInfo} \cup {k :> v : v \in vals}

HostnameTemplates == { <<"p", "i", "c", "o", "-", "#">>, <<"p", "i", "c", "o">> }

Addresses == { <<"1", "9", "2", ".", "1", "6", "8", ".", "1", ".", "4", "2">>,
               <<"1", "0", ".", "0", ".", "0", ".", "7">> }

OffsetMinutes == {-300}

Frequencies == {DEFAULT_SYSTEM_CLOCK_FREQ, 150000000}

Credentials == {EmptyInfo, ("ssid" :> <<"X">>) @@ ("key" :> <<"Y">>)}

\* configurations that vary the keys of the network, time and frequency steps
StepConfigs ==
    { c1 @@ c2 @@ c3 @@ c4 @@ c5 @@ c6 :
        c1 \in Credentials,
        c2 \in Opt("hostname", HostnameTemplates),
        c3 \in Opt("set_rtc", BOOLEAN),
        c4 \in Opt("utc_time_offset", OffsetMinutes),
        c5 \in Opt("freq", Frequencies),
        c6 \in Opt("flash_led", {TRUE}) }

\* configurations that vary the keys read while /boot.json is loaded
LoadConfigs ==
    { c1 @@ c2 @@ c3 @@ c4 @@ c5 @@ c6 :
        c1 \in Opt("flash_led", BOOLEAN),
        c2 \in Opt("set_rtc", BOOLEAN),
        c3 \in Opt("set_rtp", BOOLEAN),
        c4 \in Opt("silent", BOOLEAN),
        c5 \in Opt("start_delay_seconds", {2}),
        c6 \in Opt("debug", BOOLEAN) }

\* configurations that vary the frequency together with the keys that silence output
FreqConfigs ==
    { c1 @@ c2 @@ c3 :
        c1 \in Opt("freq", {DEFAULT_SYSTEM_CLOCK_FREQ, MAXIMUM_SYSTEM_CLOCK_FREQ,
                            MAXIMUM_SYSTEM_CLOCK_FREQ + 1, 150000000}),
        c2 \in Opt("silent", BOOLEAN),
        c3 \in Opt("debug", BOOLEAN) }

\* configurations that vary the offset, for the runs that are followed over a reset
OffsetConfigs == { "utc_time_offset" :> m : m \in {-300, 90, 1440} }

\* /boot.json: missing or not valid JSON (ok = FALSE), or a decoded mapping
NoBootFile == [ok |-> FALSE, data |-> EmptyInfo]

BootFile(c) == [ok |-> TRUE, data |-> c]

\* The runs that are explored.  The keys of the later steps are varied on an
\* image with and without network support; the keys read while the file is
\* loaded are varied, with and without the DEBUG marker file, on an image
\* without network support, where the later steps depend on none of them.
Inputs ==
    { [file |-> BootFile(c), wifi |-> w, dbg |-> FALSE, active |-> a] :
        c \in StepConfigs, w \in BOOLEAN, a \in BOOLEAN }
    \cup
    { [file |-> f, wifi |-> FALSE, dbg |-> d, active |-> FALSE] :
        f \in {NoBootFile} \cup {BootFile(c) : c \in LoadConfigs \cup FreqConfigs \cup OffsetConfigs},
        d \in BOOLEAN }

\* what wlan.isconnected() and wlan.status() report: link down, connected
\* with a status other than link-up, link up
LinkDown == [connected |-> FALSE, status |-> 0]

LinkNoIp == [connected |-> TRUE, status |-> 2]

LinkUp == [connected |-> TRUE, status |-> LINK_UP_STATUS]

DriverStates == {LinkDown, LinkNoIp, LinkUp}

\* the RTC after power-on
RtcPowerOn == <<2021, 1, 1, 4, 0, 0, 0, 0>>

\* the transmit-timestamp word of a reply: its four bytes
SampleWords ==
    { <<0, 0, 0, 0>>,            \* 0
      <<131, 170, 126, 127>>,    \* 2208988799, one second before 1970
      <<131, 170, 126, 128>>,    \* 2208988800, 1970-01-01
      <<228, 184, 107, 30>>,     \* 0xe4b86b1e
      <<232, 254, 111, 128>>,    \* 1700000000 + 2208988800
      <<255, 255, 255, 255>> }   \* 2^32 - 1

FillBytes == {0, 165}

ReplyLengths == {0, 1, 4 * NTP_REPLY_WORDS - 1} \cup (4 * NTP_REPLY_WORDS)..(4 * NTP_REPLY_WORDS + MaxExtra)

\* a datagram of n bytes: the word w at byte offset 40, the byte f elsewhere
Datagram(w, f, n) == [k \in 1..n |-> IF k \in 41..44 THEN w[k - 40] ELSE f]

\* replies of the expected length with every content, and one content in every length
Replies ==
    { Datagram(w, f, 4 * NTP_REPLY_WORDS) : w \in SampleWords, f \in FillBytes }
        \cup { Datagram(<<228, 184, 107, 30>>, 0, n) : n \in ReplyLengths }

-----------------------------------------------------------------------------
(* Control flow of the module-level code *)

\* variant: the freq step placed before the utc_time_offset step
MainStepsFreqEarly == <<"load", "wifi", "ntp", "freq", "offset", "finish", "done">>

\* the steps of the boot sequence, in the order of the file
MainSteps == <<"load", "wifi", "ntp", "offset", "freq", "finish", "done">>

\* the step that follows step s
After(s) == MainSteps[(CHOOSE k \in 1..Len(MainSteps) : MainSteps[k] = s) + 1]

\* flash_led(times), when FLASH_LED is set
Flash(log, on, times) == IF on /\ Len(log) < MaxLed THEN Append(log, times) ELSE log

Init ==
    /\ pc = "load"
    /\ \E in \in Inputs :
         /\ boot_json = in.file
         /\ debug_file = in.dbg
         /\ IMAGE_SUPPORTS_WIFI = in.wifi
         /\ wlan_active = in.active
    /\ boot_info = EmptyInfo
    /\ FLASH_LED = FALSE
    /\ SET_RTC = TRUE
    /\ SILENT = FALSE
    /\ DEBUG = debug_file
    /\ start_delay_seconds = 0
    /\ this_is_a_pico_w = FALSE
    /\ wlan_link = LinkDown
    /\ network_ready = FALSE
    /\ i = 0
    /\ last_poll = LinkDown
    /\ rounds = 0
    /\ led_log = <<>>
    /\ hostname = <<>>
    /\ ntp_idx = 0
    /\ ntp_sent = <<>>
    /\ response = <<>>
    /\ utc_time = W(0, 0)
    /\ ntp_exhausted = FALSE
    /\ rtc = RtcPowerOn
    /\ rtc_log = <<>>
    /\ offset_runs = 0
    /\ sys_freq = DEFAULT_SYSTEM_CLOCK_FREQ
    /\ freq_called = FALSE
    /\ warned = FALSE
    /\ hw_fault = FALSE
    /\ abort_at = "none"
    /\ freq_arg = 0
    /\ scan_result = "none"
    /\ link_at_ntp = "unread"
    /\ ip_read = <<>>
    /\ fetched = <<>>
    /\ boots = 1
    /\ offset_writes = 0
    /\ round_log = <<>>

-----------------------------------------------------------------------------
(* Loading /boot.json, lines 322-352 *)

\* The assignments of the try block, in order.  raised: the block was left by
\* an exception (boot_info["set_rtp"] is a KeyError when only "set_rtc" is there).
LoadSettings(info, dbg) ==
    LET s0 == [FLASH_LED |-> FALSE, SET_RTC |-> TRUE, SILENT |-> FALSE,
               DEBUG |-> dbg, start_delay_seconds |-> 0, raised |-> FALSE]
        s1 == IF Has(info, "flash_led")
              THEN [s0 EXCEPT !.FLASH_LED = info["flash_led"]] ELSE s0
        s2 == IF Has(info, "set_rtc")
              THEN IF Has(info, "set_rtp")
                   THEN [s1 EXCEPT !.SET_RTC = info["set_rtp"]]
                   ELSE [s1 EXCEPT !.raised = TRUE]
              ELSE s1
        s3 == IF ~s2.raised /\ Has(info, "silent")
              THEN [s2 EXCEPT !.SILENT = info["silent"]] ELSE s2
        s4 == IF ~s3.raised /\ Has(info, "start_delay_seconds")
              THEN [s3 EXCEPT !.start_delay_seconds = info["start_delay_seconds"]] ELSE s3
        s5 == IF ~s4.raised /\ Has(info, "debug")
              THEN [s4 EXCEPT !.DEBUG = (s4.DEBUG \/ info["debug"]), !.SILENT = FALSE]
              ELSE s4
    IN  s5

LoadBootJson ==
    /\ pc = "load"
    /\ LET info == IF boot_json.ok THEN boot_json.data ELSE EmptyInfo
           s    == LoadSettings(info, DEBUG)
       IN  /\ boot_info' = info
           /\ FLASH_LED' = s.FLASH_LED
           /\ SET_RTC' = s.SET_RTC
           /\ SILENT' = s.SILENT
           /\ DEBUG' = s.DEBUG
           /\ start_delay_seconds' = s.start_delay_seconds
           /\ led_log' = Flash(led_log, boot_json.ok /\ ~s.raised /\ s.FLASH_LED,
                               LED_START_FLASH_COUNT)
    /\ pc' = After("load")
    /\ UNCHANGED <<round_log, offset_writes, boots, fetched, ip_read, link_at_ntp, scan_result, freq_arg, boot_json, debug_file, IMAGE_SUPPORTS_WIFI, this_is_a_pico_w,
                   wlan_active, wlan_link, network_ready, i, last_poll, rounds,
                   hostname, ntp_idx, ntp_sent, response, utc_time, ntp_exhausted,
                   rtc, rtc_log, offset_runs, sys_freq, freq_called, warned,
                   hw_fault, abort_at>>

-----------------------------------------------------------------------------
(* The WiFi step, lines 370-395 *)

\* variant: the interface is left active
ProbeLeavesActiveAlways(saved_active_status) == TRUE

\* is_a_pico_w(): the activation state it leaves behind, given the state it found
ProbeLeavesActive(saved_active_status) ==
    LET activated == TRUE
    IN  IF FALSE = saved_active_status THEN FALSE ELSE activated

\* is_a_pico_w(): its result, given whether w.scan() returned
ProbeResult(scan_returned) == IF scan_returned THEN TRUE ELSE FALSE

\* variant: connect_using_DHCP is called whatever the probe returned
ConnectGateIgnoresProbe(info, probe) == Has(info, "ssid") /\ Has(info, "key")

\* lines 372-374: connect_using_DHCP is called
ConnectGate(info, probe) == Has(info, "ssid") /\ Has(info, "key") /\ probe

WifiStep ==
    /\ pc = "wifi"
    /\ IF ~IMAGE_SUPPORTS_WIFI
       THEN /\ pc' = After("ntp")
            /\ UNCHANGED <<this_is_a_pico_w, wlan_active, scan_result>>
       ELSE \E scan_returned \in BOOLEAN :
              /\ scan_result' = IF scan_returned THEN "returned" ELSE "raised"
              /\ this_is_a_pico_w' = ProbeResult(scan_returned)
              /\ wlan_active' = ProbeLeavesActive(wlan_active)
              /\ pc' = IF ConnectGate(boot_info, ProbeResult(scan_returned))
                       THEN "round" ELSE After("wifi")
    /\ UNCHANGED <<round_log, offset_writes, boots, fetched, ip_read, link_at_ntp, freq_arg, boot_json, debug_file, IMAGE_SUPPORTS_WIFI, boot_info, FLASH_LED,
                   SET_RTC, SILENT, DEBUG, start_delay_seconds, wlan_link,
                   network_ready, i, last_poll, rounds, led_log, hostname, ntp_idx,
                   ntp_sent, response, utc_time, ntp_exhausted, rtc, rtc_log,
                   offset_runs, sys_freq, freq_called, warned, hw_fault, abort_at>>

-----------------------------------------------------------------------------
(* connect_using_DHCP, lines 263-314 *)

\* one more round, counted up to MaxRounds
CountRound(n) == IF n < MaxRounds THEN n + 1 ELSE n

\* variant: the signal follows the connect request
RoundStartSignalLate(flash) ==
    <<"activate", "connect">> \o (IF flash THEN <<"flash2">> ELSE <<>>)

\* lines 279-282: the calls at the top of the while loop
RoundStart(flash) ==
    (IF flash THEN <<"flash2">> ELSE <<>>) \o <<"activate", "connect">>

\* variant: every pass of the for loop sleeps
PollOpsSleepAlways(k) == <<"sleep", "poll">>

\* lines 284-288: the calls of pass k of the for loop, up to wlan.isconnected()
PollOps(k) == (IF k > 0 THEN <<"sleep">> ELSE <<>>) \o <<"poll">>

\* the top of the while loop: signal, activate, connect
ConnectRound ==
    /\ pc = "round"
    /\ round_log' = RoundStart(FLASH_LED)
    /\ led_log' = Flash(led_log, FLASH_LED, LED_WIFI_CONNECT_TRY_COUNT)
    /\ wlan_active' = TRUE
    /\ rounds' = CountRound(rounds)
    /\ i' = 0
    /\ pc' = "poll"
    /\ UNCHANGED <<offset_writes, boots, fetched, ip_read, link_at_ntp, scan_result, freq_arg, boot_json, debug_file, IMAGE_SUPPORTS_WIFI, boot_info, FLASH_LED,
                   SET_RTC, SILENT, DEBUG, start_delay_seconds, this_is_a_pico_w,
                   wlan_link, network_ready, last_poll, hostname, ntp_idx, ntp_sent,
                   response, utc_time, ntp_exhausted, rtc, rtc_log, offset_runs,
                   sys_freq, freq_called, warned, hw_fault, abort_at>>

\* variant: the status code is not compared
PollReadyAnyStatus(link) == link.connected

\* variant: the status is compared with the code of "connected, no address yet"
PollReadyNoIp(link) == link.connected /\ link.status = 2

\* lines 288-299: the poll sets network_ready
PollReady(link) == link.connected /\ link.status = LINK_UP_STATUS

\* one pass of the for loop; the last pass of a round that is not ready also
\* runs lines 301-303
Poll ==
    /\ pc = "poll"
    /\ last_poll' = wlan_link
    /\ IF PollReady(wlan_link)
       THEN /\ network_ready' = TRUE
            /\ led_log' = Flash(led_log, FLASH_LED, LED_WIFI_CONNECTED_COUNT)
            /\ round_log' = round_log \o PollOps(i)
                                \o (IF FLASH_LED THEN <<"flash3">> ELSE <<>>)
            /\ pc' = "hostname"
            /\ i' = 0
            /\ UNCHANGED wlan_active
       ELSE IF i + 1 < DEFAULT_CONNECT_RETRIES
       THEN /\ i' = i + 1
            /\ round_log' = round_log \o PollOps(i)
            /\ UNCHANGED <<pc, network_ready, led_log, wlan_active>>
       ELSE /\ wlan_active' = FALSE
            /\ round_log' = round_log \o PollOps(i) \o <<"deactivate">>
            /\ pc' = "round"
            /\ UNCHANGED <<i, network_ready, led_log>>
    /\ UNCHANGED <<offset_writes, boots, fetched, ip_read, link_at_ntp, scan_result, freq_arg, boot_json, debug_file, IMAGE_SUPPORTS_WIFI, boot_info, FLASH_LED,
                   SET_RTC, SILENT, DEBUG, start_delay_seconds, this_is_a_pico_w,
                   wlan_link, rounds, hostname, ntp_idx, ntp_sent, response,
                   utc_time, ntp_exhausted, rtc, rtc_log, offset_runs, sys_freq,
                   freq_called, warned, hw_fault, abort_at>>

\* the driver changes what it reports, at a point where the program reads it next
DriverEvent ==
    /\ pc \in {"poll", "ntp"}
    /\ \E d \in DriverStates \ {wlan_link} : wlan_link' = d
    /\ UNCHANGED <<round_log, offset_writes, boots, fetched, ip_read, link_at_ntp, scan_result, freq_arg, pc, boot_json, debug_file, IMAGE_SUPPORTS_WIFI, boot_info,
                   FLASH_LED, SET_RTC, SILENT, DEBUG, start_delay_seconds,
                   this_is_a_pico_w, wlan_active, network_ready, i, last_poll,
                   rounds, led_log, hostname, ntp_idx, ntp_sent, response, utc_time,
                   ntp_exhausted, rtc, rtc_log, offset_runs, sys_freq, freq_called,
                   warned, hw_fault, abort_at>>

-----------------------------------------------------------------------------
(* The hostname, lines 376-390 *)

\* variant: the whole address is put in place of '#'
HostnameForWholeAddress(hn, ip) ==
    IF Contains(hn, "#") THEN Replace(hn, "#", ip) ELSE hn

\* the name handed to network.hostname() for template hn and address ip
HostnameFor(hn, ip) ==
    IF Contains(hn, "#") THEN Replace(hn, "#", LastField(ip, ".")) ELSE hn

HostnameStep ==
    /\ pc = "hostname"
    /\ round_log' = <<>>
    /\ IF Has(boot_info, "hostname")
       THEN IF Contains(boot_info["hostname"], "#")
            THEN \E ip \in Addresses :
                   /\ ip_read' = ip
                   /\ hostname' = HostnameFor(boot_info["hostname"], ip)
            ELSE /\ hostname' = HostnameFor(boot_info["hostname"], <<>>)
                 /\ UNCHANGED ip_read
       ELSE UNCHANGED <<hostname, ip_read>>
    /\ pc' = After("wifi")
    /\ UNCHANGED <<offset_writes, boots, fetched, link_at_ntp, scan_result, freq_arg, boot_json, debug_file, IMAGE_SUPPORTS_WIFI, boot_info, FLASH_LED,
                   SET_RTC, SILENT, DEBUG, start_delay_seconds, this_is_a_pico_w,
                   wlan_active, wlan_link, network_ready, i, last_poll, rounds,
                   led_log, ntp_idx, ntp_sent, response, utc_time, ntp_exhausted,
                   rtc, rtc_log, offset_runs, sys_freq, freq_called, warned,
                   hw_fault, abort_at>>

-----------------------------------------------------------------------------
(* The NTP step, lines 400-424, and try_to_get_UTC_in_UNIX_seconds, lines 184-231 *)

\* variant: the fetch is tried without asking the interface
NtpGateIgnoresLink(set_rtc, link) == set_rtc

\* lines 400-401: the fetch is tried
NtpGate(set_rtc, link) == set_rtc /\ link.connected

NtpStep ==
    /\ pc = "ntp"
    /\ link_at_ntp' = IF ~SET_RTC THEN "unread"
                      ELSE IF wlan_link.connected THEN "up" ELSE "down"
    /\ IF NtpGate(SET_RTC, wlan_link)
       THEN /\ pc' = "fetch"
            /\ ntp_idx' = 1
       ELSE /\ pc' = After("ntp")
            /\ UNCHANGED ntp_idx
    /\ UNCHANGED <<round_log, offset_writes, boots, fetched, ip_read, scan_result, freq_arg, boot_json, debug_file, IMAGE_SUPPORTS_WIFI, boot_info, FLASH_LED,
                   SET_RTC, SILENT, DEBUG, start_delay_seconds, this_is_a_pico_w,
                   wlan_active, wlan_link, network_ready, i, last_poll, rounds,
                   led_log, hostname, ntp_sent, response, utc_time, ntp_exhausted,
                   rtc, rtc_log, offset_runs, sys_freq, freq_called, warned,
                   hw_fault, abort_at>>

\* what one pass of the for loop over TIME_SERVERS can meet
FetchOutcomes ==
    {[kind |-> k, data |-> <<>>] : k \in {"resolve_error", "send_error", "timeout"}}
        \cup {[kind |-> "reply", data |-> r] : r \in Replies}

\* client.sendto() returned
RequestSent(o) == o.kind \in {"timeout", "reply"}

\* lines 207-225: the pass returns a value
PassReturns(o) == o.kind = "reply" /\ o.data # <<>> /\ ~UnpackRaises(o.data)

\* variant: the word before the transmit timestamp is taken
ReturnValueWord9(bytes) == WSub(Unpack12I(bytes)[10], SECONDS_BETWEEN_NTP_AND_UNIX_EPOCHS)

\* line 225: reply[10] - SECONDS_BETWEEN_NTP_AND_UNIX_EPOCHS
ReturnValue(bytes) == WSub(Unpack12I(bytes)[11], SECONDS_BETWEEN_NTP_AND_UNIX_EPOCHS)

\* variant: a failed server is tried again
NextServerRetry(k) == k

\* the for loop moves on to the next server
NextServer(k) == k + 1

\* line 421: del(utc_time, year, ...) raises when the names were never bound,
\* which is so exactly when the fetch has raised
FinallyDelRaises(fetch_returned) == ~fetch_returned

FetchPass ==
    /\ pc = "fetch"
    /\ \E o \in FetchOutcomes :
         /\ ntp_sent' = IF RequestSent(o)
                        THEN Append(ntp_sent, TIME_SERVERS[ntp_idx]) ELSE ntp_sent
         /\ IF PassReturns(o)
            THEN /\ response' = o.data
                 /\ utc_time' = ReturnValue(o.data)
                 /\ fetched' = <<ReturnValue(o.data)>>
                 /\ pc' = "set_rtc"
                 /\ UNCHANGED <<ntp_idx, ntp_exhausted, abort_at>>
            ELSE IF ntp_idx < Len(TIME_SERVERS)
            THEN /\ ntp_idx' = NextServer(ntp_idx)
                 /\ UNCHANGED <<pc, response, utc_time, fetched, ntp_exhausted, abort_at>>
            ELSE \* line 231 raises, line 418 catches, line 421 runs
                 /\ ntp_exhausted' = TRUE
                 /\ IF FinallyDelRaises(FALSE)
                    THEN pc' = "aborted" /\ abort_at' = "ntp"
                    ELSE pc' = After("ntp") /\ UNCHANGED abort_at
                 /\ UNCHANGED <<ntp_idx, response, utc_time, fetched>>
    /\ UNCHANGED <<round_log, offset_writes, boots, ip_read, link_at_ntp, scan_result, freq_arg, boot_json, debug_file, IMAGE_SUPPORTS_WIFI, boot_info, FLASH_LED,
                   SET_RTC, SILENT, DEBUG, start_delay_seconds, this_is_a_pico_w,
                   wlan_active, wlan_link, network_ready, i, last_poll, rounds,
                   led_log, hostname, rtc, rtc_log, offset_runs, sys_freq,
                   freq_called, warned, hw_fault>>

\* lines 404-421 after the fetch has returned
SetRtcFromNtp ==
    /\ pc = "set_rtc"
    /\ led_log' = Flash(led_log, FLASH_LED, LED_TIME_OBTAINED_COUNT)
    /\ \E written \in BOOLEAN :
         LET dt == RtcTuple(gmtime(utc_time))
         IN  /\ rtc_log' = Append(rtc_log, [step |-> "ntp", dt |-> dt, ok |-> written])
             /\ rtc' = IF written THEN dt ELSE rtc
             /\ hw_fault' = (hw_fault \/ ~written)
    /\ IF FinallyDelRaises(TRUE)
       THEN pc' = "aborted" /\ abort_at' = "ntp"
       ELSE pc' = After("ntp") /\ UNCHANGED abort_at
    /\ response' = <<>>
    /\ utc_time' = W(0, 0)
    /\ UNCHANGED <<round_log, offset_writes, boots, fetched, ip_read, link_at_ntp, scan_result, freq_arg, boot_json, debug_file, IMAGE_SUPPORTS_WIFI, boot_info, FLASH_LED,
                   SET_RTC, SILENT, DEBUG, start_delay_seconds, this_is_a_pico_w,
                   wlan_active, wlan_link, network_ready, i, last_poll, rounds,
                   hostname, ntp_idx, ntp_sent, ntp_exhausted, offset_runs, sys_freq,
                   freq_called, warned>>

-----------------------------------------------------------------------------
(* The utc_time_offset step, lines 429-448 *)

\* variant: the offset is added to the time of power-on, not to the time latched
OffsetTupleFromPowerOn(dt, minutes) ==
    RtcTuple(gmtime(WAddInt(time_time(RtcPowerOn), minutes * 60)))

\* lines 435-440: the tuple the step hands to rtc.datetime()
OffsetTuple(dt, minutes) == RtcTuple(gmtime(WAddInt(time_time(dt), minutes * 60)))

OffsetStep ==
    /\ pc = "offset"
    /\ IF Has(boot_info, "utc_time_offset")
       THEN \E written \in BOOLEAN :
              LET dt == OffsetTuple(rtc, boot_info["utc_time_offset"])
              IN  /\ offset_runs' = offset_runs + 1
                  /\ offset_writes' = IF written THEN offset_writes + 1 ELSE offset_writes
                  /\ rtc_log' = Append(rtc_log, [step |-> "offset", dt |-> dt, ok |-> written])
                  /\ rtc' = IF written THEN dt ELSE rtc
                  /\ hw_fault' = (hw_fault \/ ~written)
                  /\ IF written
                     THEN pc' = After("offset") /\ UNCHANGED abort_at
                     ELSE pc' = "aborted" /\ abort_at' = "offset"
       ELSE /\ pc' = After("offset")
            /\ UNCHANGED <<offset_runs, offset_writes, rtc_log, rtc, hw_fault, abort_at>>
    /\ UNCHANGED <<round_log, boots, fetched, ip_read, link_at_ntp, scan_result, freq_arg, boot_json, debug_file, IMAGE_SUPPORTS_WIFI, boot_info, FLASH_LED,
                   SET_RTC, SILENT, DEBUG, start_delay_seconds, this_is_a_pico_w,
                   wlan_active, wlan_link, network_ready, i, last_poll, rounds,
                   led_log, hostname, ntp_idx, ntp_sent, response, utc_time,
                   ntp_exhausted, sys_freq, freq_called, warned>>

-----------------------------------------------------------------------------
(* The freq step, lines 493-503, and the end of the file *)

\* variant: the WARNING is printed only when SILENT is not set
FrequencyWarningUnlessSilent(new_freq, silent) ==
    ~silent /\ new_freq > MAXIMUM_SYSTEM_CLOCK_FREQ

\* lines 497-498: the WARNING is printed, whatever SILENT is
FrequencyWarning(new_freq, silent) == new_freq > MAXIMUM_SYSTEM_CLOCK_FREQ

FreqStep ==
    /\ pc = "freq"
    /\ IF Has(boot_info, "freq")
       THEN \E accepted \in BOOLEAN :
              LET new_freq == boot_info["freq"]
              IN  /\ warned' = FrequencyWarning(new_freq, SILENT)
                  /\ freq_called' = TRUE
                  /\ freq_arg' = new_freq
                  /\ sys_freq' = IF accepted THEN new_freq ELSE sys_freq
                  /\ hw_fault' = (hw_fault \/ ~accepted)
                  /\ IF accepted
                     THEN pc' = After("freq") /\ UNCHANGED abort_at
                     ELSE pc' = "aborted" /\ abort_at' = "freq"
       ELSE /\ pc' = After("freq")
            /\ UNCHANGED <<warned, freq_called, freq_arg, sys_freq, hw_fault, abort_at>>
    /\ UNCHANGED <<round_log, offset_writes, boots, fetched, ip_read, link_at_ntp, scan_result, boot_json, debug_file, IMAGE_SUPPORTS_WIFI, boot_info, FLASH_LED,
                   SET_RTC, SILENT, DEBUG, start_delay_seconds, this_is_a_pico_w,
                   wlan_active, wlan_link, network_ready, i, last_poll, rounds,
                   led_log, hostname, ntp_idx, ntp_sent, response, utc_time,
                   ntp_exhausted, rtc, rtc_log, offset_runs>>

\* lines 508-537: cleanup and the done signal
FinishStep ==
    /\ pc = "finish"
    /\ led_log' = Flash(led_log, FLASH_LED, LED_DONE_COUNT)
    /\ pc' = After("finish")
    /\ UNCHANGED <<round_log, offset_writes, boots, fetched, ip_read, link_at_ntp, scan_result, freq_arg, boot_json, debug_file, IMAGE_SUPPORTS_WIFI, boot_info, FLASH_LED,
                   SET_RTC, SILENT, DEBUG, start_delay_seconds, this_is_a_pico_w,
                   wlan_active, wlan_link, network_ready, i, last_poll, rounds,
                   hostname, ntp_idx, ntp_sent, response, utc_time, ntp_exhausted,
                   rtc, rtc_log, offset_runs, sys_freq, freq_called, warned,
                   hw_fault, abort_at>>

\* A soft reset: the interpreter starts again and runs boot.py from the top.
\* The globals of the last run are gone; the RTC, the system clock, the
\* interface and the files are as the last run left them.  The next run is
\* followed on an image without network support, where a run takes no
\* network step.
Reboot ==
    /\ pc \in {"done", "aborted"}
    /\ ~IMAGE_SUPPORTS_WIFI
    /\ boots < MaxBoots
    /\ boots' = boots + 1
    /\ pc' = "load"
    /\ boot_info' = EmptyInfo
    /\ FLASH_LED' = FALSE
    /\ SET_RTC' = TRUE
    /\ SILENT' = FALSE
    /\ DEBUG' = debug_file
    /\ start_delay_seconds' = 0
    /\ this_is_a_pico_w' = FALSE
    /\ scan_result' = "none"
    /\ network_ready' = FALSE
    /\ i' = 0
    /\ last_poll' = LinkDown
    /\ rounds' = 0
    /\ led_log' = <<>>
    /\ round_log' = <<>>
    /\ hostname' = <<>>
    /\ ip_read' = <<>>
    /\ ntp_idx' = 0
    /\ ntp_sent' = <<>>
    /\ link_at_ntp' = "unread"
    /\ response' = <<>>
    /\ utc_time' = W(0, 0)
    /\ fetched' = <<>>
    /\ ntp_exhausted' = FALSE
    /\ rtc_log' = <<>>
    /\ offset_runs' = 0
    /\ freq_called' = FALSE
    /\ freq_arg' = 0
    /\ warned' = FALSE
    /\ hw_fault' = FALSE
    /\ abort_at' = "none"
    /\ UNCHANGED <<boot_json, debug_file, IMAGE_SUPPORTS_WIFI, wlan_active, wlan_link,
                   rtc, sys_freq, offset_writes>>

-----------------------------------------------------------------------------

\* the steps of boot.py
Program ==
    \/ LoadBootJson
    \/ WifiStep
    \/ ConnectRound
    \/ Poll
    \/ HostnameStep
    \/ NtpStep
    \/ FetchPass
    \/ SetRtcFromNtp
    \/ OffsetStep
    \/ FreqStep
    \/ FinishStep

Next == Program \/ DriverEvent \/ Reboot

Spec == Init /\ [][Next]_vars

-----------------------------------------------------------------------------
(* The specification of the liveness property: the runs with credentials *)

LiveConfigs ==
    { ("ssid" :> <<"X">>) @@ ("key" :> <<"Y">>) @@ c2 @@ c3 :
        c2 \in Opt("flash_led", {TRUE}),
        c3 \in Opt("utc_time_offset", OffsetMinutes) }

InitLive == Init /\ boot_json \in {BootFile(c) : c \in LiveConfigs}

\* the steps of connect_using_DHCP
ConnectSteps == ConnectRound \/ Poll

\* boot.py is one thread that the interpreter keeps running: inside
\* connect_using_DHCP each time.sleep(1) and each call of the driver returns
SpecLive == InitLive /\ [][Next]_vars /\ WF_vars(ConnectSteps)

-----------------------------------------------------------------------------
(* Properties *)

Terminated == pc \in {"done", "aborted"}

InConnect == pc \in {"round", "poll"}

\* C1: when every time server has failed the boot sequence is not ended by
\* the NTP step: it goes on to the offset step, the freq step and the end.
C1_NtpExhaustionNonFatal == ntp_exhausted => abort_at # "ntp"

\* C2: once the run has ended, a configured utc_time_offset has been applied
\* exactly once, whatever the earlier steps did.
C2_OffsetAppliedOnce ==
    (Terminated /\ Has(boot_info, "utc_time_offset")) => offset_runs = 1

NtpWroteRtc == \E k \in 1..Len(rtc_log) : rtc_log[k].step = "ntp"

\* C3: with set_rtc = false in the configuration no NTP request is sent and
\* the NTP step does not write the RTC; without the key SET_RTC is true.
C3_SetRtcGates ==
    /\ (Has(boot_info, "set_rtc") /\ boot_info["set_rtc"] = FALSE)
          => (ntp_sent = <<>> /\ ~NtpWroteRtc)
    /\ (pc # "load" /\ ~Has(boot_info, "set_rtc")) => SET_RTC

\* C4: a raising rtc.datetime() or machine.freq() never ends the boot
\* sequence: the run still reaches the end of the file.
C4_HardwareFaultNonFatal == (hw_fault /\ Terminated) => pc = "done"

\* the position of a server in the documented order
ServerRank(name) ==
    CHOOSE k \in 1..4 :
        <<"time.nist.gov", "pool.ntp.org", "time.google.com", "time.windows.com">>[k] = name

\* C5: requests go to the servers in the fixed order, at most one to each;
\* the fetch returns with the reply of the server asked last, also when that
\* is the last of the list, and no request is sent once it has returned.
C5_ServersInOrder ==
    /\ [](/\ \A a, b \in 1..Len(ntp_sent) :
                a < b => ServerRank(ntp_sent[a]) < ServerRank(ntp_sent[b])
          /\ pc = "fetch" =>
                \A a \in 1..Len(ntp_sent) : ServerRank(ntp_sent[a]) < ntp_idx
          /\ pc = "set_rtc" =>
                /\ ntp_sent # <<>>
                /\ ServerRank(ntp_sent[Len(ntp_sent)]) = ntp_idx
                /\ Len(response) >= 48)
    /\ [][pc # "fetch" => ntp_sent' = ntp_sent]_vars

C5_Witness ==
    /\ pc = "set_rtc"
    /\ ntp_idx = 4
    /\ ntp_sent = <<"time.nist.gov", "pool.ntp.org", "time.google.com", "time.windows.com">>
    /\ utc_time = W(25939, 61696)

\* C6: the value returned for an accepted reply is the big-endian word at
\* byte offset 40 minus 2208988800 (= 33706 * 65536 + 32384), whatever the
\* other bytes are: adding the constant back gives the word.
C6_ReturnIsWord10MinusEpoch ==
    pc = "set_rtc" =>
        LET hi  == response[41] * 256 + response[42]
            lo  == response[43] * 256 + response[44]
            sum == utc_time.lo + 32384
        IN  /\ utc_time.lo \in 0..65535
            /\ lo = sum % 65536
            /\ hi = utc_time.hi + 33706 + (sum \div 65536)

C6_Witness ==
    /\ pc = "set_rtc"
    /\ <<response[41], response[42], response[43], response[44]>> = <<228, 184, 107, 30>>
    /\ response[1] = 165
    /\ utc_time = W(24845, 60574)

\* C7: a value is returned only for a reply of exactly 48 bytes.
C7_OnlyExactLength == pc = "set_rtc" => Len(response) = 48

\* C8: connect_using_DHCP is left only by a poll that read the link as
\* connected with status 3; it never ends in an error.
C8_ReturnsOnlyWhenLinkUp ==
    /\ network_ready => (last_poll.connected /\ last_poll.status = 3)
    /\ InConnect => (~network_ready /\ abort_at = "none")
    /\ (rounds > 0 /\ ~InConnect) => network_ready

C8_Witness ==
    /\ pc = "hostname"
    /\ rounds = 2
    /\ network_ready
    /\ last_poll = LinkUp

\* C9: connect_using_DHCP does not stay forever in its loop while the driver
\* keeps reporting the link connected with status 3.
C9_ReturnsOnceLinkStaysUp == []<>(~(InConnect /\ wlan_link = LinkUp))

C9_Witness ==
    /\ pc = "poll"
    /\ rounds = 2
    /\ i = 0
    /\ wlan_link = LinkUp

\* C10: once machine.freq(new_freq) has been called only the end of the file
\* follows: no connect round, hostname, NTP request or RTC write.
C10_FreqIsLast ==
    /\ [](freq_called => pc \in {"finish", "done", "aborted"})
    /\ [][freq_called' =>
            /\ rtc_log' = rtc_log
            /\ rtc' = rtc
            /\ ntp_sent' = ntp_sent
            /\ hostname' = hostname
            /\ rounds' = rounds
            /\ wlan_active' = wlan_active]_vars

C10_Witness ==
    /\ pc = "done"
    /\ freq_called
    /\ Len(rtc_log) = 2
    /\ ntp_sent # <<>>
    /\ hostname # <<>>

-----------------------------------------------------------------------------
(* The freq step: the published maximum *)

\* C11: the 133,000,000 Hz ceiling is a soft limit.  machine.freq() is called
\* with exactly the configured value, whatever the value; the WARNING is
\* printed if and only if the value is greater than 133,000,000, whatever SILENT
\* is; without the call there is no WARNING.
C11_CeilingIsSoft ==
    /\ freq_called =>
         /\ Has(boot_info, "freq")
         /\ freq_arg = boot_info["freq"]
         /\ warned <=> (freq_arg > 133000000)
    /\ ~freq_called => (~warned /\ freq_arg = 0)
    /\ (pc \in {"finish", "done"} /\ Has(boot_info, "freq")) =>
         (freq_called /\ sys_freq = boot_info["freq"])

\* 150000000 is handed to machine.freq() and the WARNING is printed while SILENT is set
C11_Witness ==
    /\ pc = "done"
    /\ SILENT
    /\ freq_arg = 150000000
    /\ sys_freq = 150000000
    /\ warned

-----------------------------------------------------------------------------
(* The probe is_a_pico_w() *)

\* C12: the probe is non-destructive.  The step that runs is_a_pico_w() leaves
\* the activation state of the interface as it found it, active or inactive,
\* whether w.scan() returned or raised; its result is true exactly when
\* w.scan() was called and did not raise.
C12_ProbeNonDestructive ==
    /\ [](this_is_a_pico_w <=> scan_result = "returned")
    /\ []((pc \notin {"load", "wifi"} /\ IMAGE_SUPPORTS_WIFI) <=> scan_result # "none")
    /\ [][pc = "wifi" => wlan_active' = wlan_active]_vars

\* the probe found the interface inactive, its scan raised, and the interface is inactive
C12_Witness ==
    /\ pc = "ntp"
    /\ scan_result = "raised"
    /\ ~this_is_a_pico_w
    /\ ~wlan_active

-----------------------------------------------------------------------------
(* ssid and key are configured and the probe fails *)

\* ssid and key are in the configuration and w.scan() of the probe raised
ProbeFailed == Has(boot_info, "ssid") /\ Has(boot_info, "key") /\ scan_result = "raised"

-----------------------------------------------------------------------------
(* The hostname *)

\* C14: network.hostname() is called only after connect_using_DHCP has
\* returned with the link up, and only if "hostname" is configured.  The
\* template "pico-#" gives "pico-42" with the address 192.168.1.42 (and
\* "pico-7" with 10.0.0.7): the '#' is replaced by the last dot-delimited field
\* of the address.  A template without '#' is set unchanged, and the address
\* is not read.
C14_HostnameTemplate ==
    /\ hostname # <<>> =>
         /\ network_ready
         /\ last_poll.connected /\ last_poll.status = 3
         /\ Has(boot_info, "hostname")
    /\ (pc \notin {"load", "wifi", "round", "poll", "hostname"} /\ network_ready
            /\ Has(boot_info, "hostname")) =>
         \/ /\ boot_info["hostname"] = <<"p", "i", "c", "o", "-", "#">>
            /\ ip_read = <<"1", "9", "2", ".", "1", "6", "8", ".", "1", ".", "4", "2">>
            /\ hostname = <<"p", "i", "c", "o", "-", "4", "2">>
         \/ /\ boot_info["hostname"] = <<"p", "i", "c", "o", "-", "#">>
            /\ ip_read = <<"1", "0", ".", "0", ".", "0", ".", "7">>
            /\ hostname = <<"p", "i", "c", "o", "-", "7">>
         \/ /\ boot_info["hostname"] = <<"p", "i", "c", "o">>
            /\ ip_read = <<>>
            /\ hostname = <<"p", "i", "c", "o">>

\* "pico-#" with the address 192.168.1.42 has become "pico-42"
C14_Witness ==
    /\ pc = "ntp"
    /\ Has(boot_info, "hostname")
    /\ boot_info["hostname"] = <<"p", "i", "c", "o", "-", "#">>
    /\ ip_read = <<"1", "9", "2", ".", "1", "6", "8", ".", "1", ".", "4", "2">>
    /\ hostname = <<"p", "i", "c", "o", "-", "4", "2">>

-----------------------------------------------------------------------------
(* debug and silent *)

\* C15: once /boot.json has been processed, DEBUG true (from the "debug" key
\* or from the DEBUG marker file) implies SILENT false, for every combination
\* of the "silent" and "debug" keys.
C15_DebugOverridesSilent == (pc # "load" /\ DEBUG) => ~SILENT

-----------------------------------------------------------------------------
(* Link, NTP, RTC *)

\* C16: a request goes to a time server only if isconnected() answered true at
\* the NTP step; the NTP step hands a tuple to rtc.datetime() only after the
\* fetch has returned a value in the same run, and that tuple is the one of the
\* value; when every server has failed the NTP step has written nothing and
\* the RTC holds what it held.
C16_LinkThenNtpThenRtc ==
    /\ []((ntp_sent # <<>> \/ pc \in {"fetch", "set_rtc"}) =>
            (SET_RTC /\ link_at_ntp = "up"))
    /\ [](NtpWroteRtc =>
            /\ fetched # <<>>
            /\ ntp_sent # <<>>
            /\ rtc_log[1].step = "ntp"
            /\ rtc_log[1].dt = RtcTuple(gmtime(fetched[1])))
    /\ [](ntp_exhausted => (fetched = <<>> /\ rtc_log = <<>>))
    /\ [][(pc \in {"ntp", "fetch"}) => (rtc' = rtc)]_vars
    /\ [][(Len(rtc_log') > Len(rtc_log) /\ pc # "offset") => (pc = "set_rtc" /\ fetched # <<>>)]_vars

\* the third server answered 1700000000 and the NTP step has written the RTC
C16_Witness ==
    /\ pc = "offset"
    /\ link_at_ntp = "up"
    /\ Len(ntp_sent) = 3
    /\ fetched = <<W(25939, 61696)>>
    /\ rtc = <<2023, 11, 14, 0, 22, 13, 20, 0>>

-----------------------------------------------------------------------------
(* The two writes of the RTC *)

\* For each value T the sample replies carry: T, the calendar tuple of T and
\* the calendar tuple of T - 18000, in the field order of rtc.datetime().
ExpectedWrites ==
    { <<W(-33707, 33152), <<1900, 1, 1, 0, 0, 0, 0, 0>>,     <<1899, 12, 31, 0, 19, 0, 0, 0>>>>,
      <<W(-1, 65535),     <<1969, 12, 31, 0, 23, 59, 59, 0>>, <<1969, 12, 31, 0, 18, 59, 59, 0>>>>,
      <<W(0, 0),          <<1970, 1, 1, 0, 0, 0, 0, 0>>,     <<1969, 12, 31, 0, 19, 0, 0, 0>>>>,
      <<W(24845, 60574),  <<2021, 8, 7, 0, 2, 14, 54, 0>>,   <<2021, 8, 6, 0, 21, 14, 54, 0>>>>,
      <<W(25939, 61696),  <<2023, 11, 14, 0, 22, 13, 20, 0>>, <<2023, 11, 14, 0, 17, 13, 20, 0>>>>,
      <<W(31829, 33151),  <<2036, 2, 7, 0, 6, 28, 15, 0>>,   <<2036, 2, 7, 0, 1, 28, 15, 0>>>> }

\* C17: when the fetch returned T, utc_time_offset = -300 is configured and
\* both steps have written, the RTC was written exactly twice in the run:
\* first with the UTC calendar fields of T, then with those of T - 18000, the
\* weekday and sub-second fields zero (T = 1700000000: 2023-11-14 22:13:20,
\* then 17:13:20).  In no run is the RTC written more than twice, and no write
\* of the offset step precedes a write of the NTP step.
C17_TwoWrites ==
    /\ Len(rtc_log) <= 2
    /\ \A a, b \in 1..Len(rtc_log) :
         a < b => ~(rtc_log[a].step = "offset" /\ rtc_log[b].step = "ntp")
    /\ \A k \in 1..Len(rtc_log) : rtc_log[k].dt[4] = 0 /\ rtc_log[k].dt[8] = 0
    /\ (/\ fetched # <<>>
        /\ Has(boot_info, "utc_time_offset")
        /\ boot_info["utc_time_offset"] = -300
        /\ offset_runs = 1
        /\ \A k \in 1..Len(rtc_log) : rtc_log[k].ok) =>
         /\ Len(rtc_log) = 2
         /\ rtc_log[1].step = "ntp"
         /\ rtc_log[2].step = "offset"
         /\ <<fetched[1], rtc_log[1].dt, rtc_log[2].dt>> \in ExpectedWrites
         /\ rtc = rtc_log[2].dt

\* T = 1700000000 and m = -300: the two writes, and the run has ended
C17_Witness ==
    /\ pc = "done"
    /\ fetched = <<W(25939, 61696)>>
    /\ Len(rtc_log) = 2
    /\ rtc_log[1] = [step |-> "ntp", dt |-> <<2023, 11, 14, 0, 22, 13, 20, 0>>, ok |-> TRUE]
    /\ rtc_log[2] = [step |-> "offset", dt |-> <<2023, 11, 14, 0, 17, 13, 20, 0>>, ok |-> TRUE]
    /\ rtc = <<2023, 11, 14, 0, 17, 13, 20, 0>>

-----------------------------------------------------------------------------
(* The utc_time_offset step over several runs *)

\* For an offset of m minutes: m, a number k of applications, and the clock
\* k * 60 * m seconds from 2021-01-01 00:00:00, in the field order of rtc.datetime().
CompoundedClock ==
    { <<-300, 1, <<2020, 12, 31, 0, 19, 0, 0, 0>>>>,
      <<-300, 2, <<2020, 12, 31, 0, 14, 0, 0, 0>>>>,
      <<-300, 3, <<2020, 12, 31, 0, 9, 0, 0, 0>>>>,
      <<90, 1, <<2021, 1, 1, 0, 1, 30, 0, 0>>>>,
      <<90, 2, <<2021, 1, 1, 0, 3, 0, 0, 0>>>>,
      <<90, 3, <<2021, 1, 1, 0, 4, 30, 0, 0>>>>,
      <<1440, 1, <<2021, 1, 2, 0, 0, 0, 0, 0>>>>,
      <<1440, 2, <<2021, 1, 3, 0, 0, 0, 0, 0>>>>,
      <<1440, 3, <<2021, 1, 4, 0, 0, 0, 0, 0>>>> }

\* C18: the utc_time_offset step shifts the time that is latched in the RTC.
\* Over runs that take no NTP step, after k writes of the step with the same
\* offset of m minutes the clock is exactly k * 60 * m seconds from its value
\* at power-on: after two writes, twice the shift of one.
C18_OffsetCompounds ==
    (~IMAGE_SUPPORTS_WIFI /\ Has(boot_info, "utc_time_offset")) =>
        LET m == boot_info["utc_time_offset"]
        IN  /\ time_time(rtc) = WAddInt(time_time(RtcPowerOn), offset_writes * 60 * m)
            /\ (offset_writes \in 1..3 /\ m \in {-300, 90, 1440}) =>
                 <<m, offset_writes, rtc>> \in CompoundedClock

\* the second run has applied -300 minutes a second time: ten hours before power-on
C18_Witness ==
    /\ boots = 2
    /\ pc = "done"
    /\ Has(boot_info, "utc_time_offset")
    /\ boot_info["utc_time_offset"] = -300
    /\ offset_writes = 2
    /\ rtc = <<2020, 12, 31, 0, 14, 0, 0, 0>>

-----------------------------------------------------------------------------
(* connect_using_DHCP: the signals and the shape of a round *)

\* occurrences of x in the sequence s
Count(s, x) == Cardinality({k \in 1..Len(s) : s[k] = x})

\* a round has started and connect_using_DHCP has not been left behind
RoundOpen == pc = "poll" \/ (pc \in {"round", "hostname"} /\ rounds > 0)

\* C19: with FLASH_LED set, every round of connect_using_DHCP starts with the
\* two-flash signal, before the interface is activated and the connect request
\* is made, one signal per round; the three-flash signal is given once per
\* call, as the last thing of the round whose poll found the link up, and
\* never in a round that ended without it.  With FLASH_LED not set neither
\* signal is given.
C19_ConnectSignals ==
    /\ ~FLASH_LED =>
         /\ Count(round_log, "flash2") = 0 /\ Count(round_log, "flash3") = 0
         /\ Count(led_log, 2) = 0 /\ Count(led_log, 3) = 0
    /\ (FLASH_LED /\ RoundOpen) =>
         /\ round_log[1] = "flash2"
         /\ round_log[2] = "activate"
         /\ round_log[3] = "connect"
         /\ Count(round_log, "flash2") = 1
    /\ Count(round_log, "flash3") > 0 =>
         /\ Count(round_log, "flash3") = 1
         /\ round_log[Len(round_log)] = "flash3"
         /\ round_log[Len(round_log) - 1] = "poll"
         /\ Count(round_log, "deactivate") = 0
         /\ pc = "hostname" /\ network_ready
         /\ last_poll.connected /\ last_poll.status = 3
    /\ (FLASH_LED /\ pc = "hostname") => Count(round_log, "flash3") = 1
    /\ (pc = "round" /\ rounds > 0) => Count(round_log, "flash3") = 0
    /\ Count(led_log, 3) <= 1
    /\ Count(led_log, 3) = 1 => network_ready
    /\ (FLASH_LED /\ network_ready /\ Len(led_log) < MaxLed) => Count(led_log, 3) = 1
    /\ (FLASH_LED /\ rounds < MaxRounds /\ Len(led_log) < MaxLed) =>
         Count(led_log, 2) = rounds

\* the first round failed and the second found the link up at its third poll
C19_Witness ==
    /\ pc = "hostname"
    /\ rounds = 2
    /\ led_log = <<1, 2, 2, 3>>
    /\ round_log = <<"flash2", "activate", "connect", "poll", "sleep", "poll",
                     "sleep", "poll", "flash3">>

\* the calls of the round without the LED signals
RoundCalls == SelectSeq(round_log, LAMBDA op : op \notin {"flash2", "flash3"})

\* C20: a round of connect_using_DHCP activates the interface and makes
\* exactly one connect request, then polls at most 10 times, with a sleep of
\* one second before every poll but the first.  A round that ends without a
\* poll that found the link up has polled 10 times and deactivates the
\* interface as its last call, before the next round activates it again.  The
\* round whose poll found the link up ends with that poll: the interface is
\* not deactivated, and stays active.
C20_RoundStructure ==
    /\ RoundOpen =>
         /\ Len(RoundCalls) >= 2
         /\ RoundCalls[1] = "activate"
         /\ RoundCalls[2] = "connect"
         /\ Count(round_log, "activate") = 1
         /\ Count(round_log, "connect") = 1
         /\ Count(round_log, "poll") <= 10
         /\ Count(round_log, "sleep") =
              IF Count(round_log, "poll") = 0 THEN 0 ELSE Count(round_log, "poll") - 1
         /\ \A k \in 3..Len(RoundCalls) :
              /\ RoundCalls[k] = "poll" => (k = 3 \/ RoundCalls[k - 1] = "sleep")
              /\ RoundCalls[k] = "sleep" =>
                   (k > 3 /\ RoundCalls[k - 1] = "poll"
                      /\ k < Len(RoundCalls) /\ RoundCalls[k + 1] = "poll")
              /\ RoundCalls[k] = "deactivate" => k = Len(RoundCalls)
    /\ pc = "poll" => (Count(round_log, "poll") = i /\ wlan_active)
    /\ (pc = "round" /\ rounds > 0) =>
         /\ RoundCalls[Len(RoundCalls)] = "deactivate"
         /\ Count(round_log, "poll") = 10
         /\ ~(last_poll.connected /\ last_poll.status = 3)
         /\ ~wlan_active
    /\ Count(round_log, "deactivate") > 0 => (pc = "round" /\ ~network_ready)
    /\ pc = "hostname" =>
         /\ RoundCalls[Len(RoundCalls)] = "poll"
         /\ last_poll.connected /\ last_poll.status = 3
    /\ network_ready => wlan_active

\* a round has polled 10 times without finding the link up and has deactivated
C20_Witness ==
    /\ pc = "round"
    /\ rounds = 1
    /\ ~wlan_active
    /\ RoundCalls = <<"activate", "connect", "poll", "sleep", "poll", "sleep", "poll",
                      "sleep", "poll", "sleep", "poll", "sleep", "poll", "sleep",
                      "poll", "sleep", "poll", "sleep", "poll", "sleep", "poll",
                      "deactivate">>

-----------------------------------------------------------------------------
(* The keys read while /boot.json is loaded *)

\* the keys whose effect is looked at
OwnKeys == {"flash_led", "silent", "start_delay_seconds", "debug"}

\* the configuration info without the keys outside ks
Restrict(info, ks) == [k \in (DOMAIN info) \cap ks |-> info[k]]

\* flash_led(LED_START_FLASH_COUNT) was called in this run
StartSignalGiven == Len(led_log) > 0 /\ led_log[1] = 1

\* C21: the keys take effect independently of one another.  Once a decoded
\* /boot.json has been processed, SILENT, start_delay_seconds and DEBUG, and
\* whether the start signal was given, are what the keys "flash_led",
\* "silent", "start_delay_seconds" and "debug" give on their own: they are the
\* same as for the configuration with every other key removed.
C21_KeysIndependent ==
    (pc # "load" /\ boot_json.ok) =>
        LET own == LoadSettings(Restrict(boot_info, OwnKeys), debug_file)
        IN  /\ SILENT = own.SILENT
            /\ start_delay_seconds = own.start_delay_seconds
            /\ DEBUG = own.DEBUG
            /\ StartSignalGiven <=> own.FLASH_LED

====
